---- MODULE Spec2Model ----
(***************************************************************************)
(* Model of dt_index_streamlit.py: the cached spreadsheet load             *)
(* (load_data), and the script body that Streamlit re-runs from top to     *)
(* bottom on every widget change (filter, metrics, ranking table,          *)
(* industry comparison, company trend).                                    *)
(*                                                                         *)
(* Representation.                                                         *)
(*   - A Python string is a sequence of one-character tokens.              *)
(*   - A spreadsheet cell is a record [t, n, s]: t is the Python type of   *)
(*     the value ("nan" for a missing cell, "int", "float", "str"), n the  *)
(*     number, s the string.                                               *)
(*   - A float is an integer number of halves (3 is 1.5), so that int()    *)
(*     and comparison with the integer slider bounds are exact.            *)
(***************************************************************************)
EXTENDS Integers, Sequences, FiniteSets, TLC

(***************************************************************************)
(* Bounds of the model.                                                    *)
(***************************************************************************)
MaxCodeLen == 7
MaxSmallInt == 12
MaxRows == 3
BigRows == 22
BigIndustries == 11

(***************************************************************************)
(* Python values.                                                          *)
(***************************************************************************)
NaN == [t |-> "nan", n |-> 0, s |-> <<>>]
PyInt(k) == [t |-> "int", n |-> k, s |-> <<>>]
PyFloat(k) == [t |-> "float", n |-> k, s |-> <<>>]
PyStr(str) == [t |-> "str", n |-> 0, s |-> str]

\* pd.isna / the test dropna applies to a cell.
isna(x) == x.t = "nan"

Digit(d) == <<"0", "1", "2", "3", "4", "5", "6", "7", "8", "9">>[d + 1]

RECURSIVE NatStr(_)
NatStr(k) == IF k < 10 THEN <<Digit(k)>> ELSE Append(NatStr(k \div 10), Digit(k % 10))

\* str(k) of a Python int.
IntStr(k) == IF k < 0 THEN <<"-">> \o NatStr(-k) ELSE NatStr(k)

\* str(x) of a cell value. A float's n counts halves: 24 is 12.0 and prints
\* "12.0", 25 is 12.5. str(nan) is "nan".
str(x) ==
  CASE x.t = "str" -> x.s
    [] x.t = "int" -> IntStr(x.n)
    [] x.t = "float" ->
         (IF x.n < 0 THEN <<"-">> ELSE <<>>)
           \o NatStr((IF x.n < 0 THEN -x.n ELSE x.n) \div 2)
           \o <<".", IF x.n % 2 = 0 THEN "0" ELSE "5">>
    [] OTHER -> <<"n", "a", "n">>

RECURSIVE Zeros(_)
Zeros(k) == IF k <= 0 THEN <<>> ELSE <<"0">> \o Zeros(k - 1)

\* str.zfill(width): zeros are inserted after a leading sign character.
zfill(st, width) ==
  IF Len(st) >= width THEN st
  ELSE IF Len(st) > 0 /\ st[1] \in {"+", "-"}
       THEN <<st[1]>> \o Zeros(width - Len(st)) \o Tail(st)
       ELSE Zeros(width - Len(st)) \o st

(***************************************************************************)
(* load_data, lines 31-33: the stock code column.                          *)
(***************************************************************************)
\* The two characters of the sentinel the lambda exempts (line 31).
Unknown == <<"wei4", "zhi1">>

PadWidth == 6

\* The lambda of line 31.
PadLambda(x) ==
  IF x.t \in {"str", "int"} /\ str(x) # Unknown /\ Len(str(x)) < PadWidth
  THEN PyStr(zfill(str(x), PadWidth)) ELSE x

\* .astype(str) of line 33, mutated: the column is left as it is.
AsTypeKeep(x) == x

\* .astype(str) of line 33: every value, a missing one included, becomes its str().
AsTypeStr(x) == PyStr(str(x))

\* Lines 31-33 on one value.
NormalizeCode(x) == AsTypeStr(PadLambda(x))

(***************************************************************************)
(* The source file: read_excel either raises, or yields rows of cells.     *)
(***************************************************************************)
RawRow(code, name, year, industry, score) ==
  [stock_code |-> code, company_name |-> name, year |-> year,
   industry_name |-> industry, index_score |-> score]

I1 == PyStr(<<"I", "1">>)
I2 == PyStr(<<"I", "2">>)
I3 == PyStr(<<"I", "3">>)

\* Rows the small source files are cut from: padded and unpadded codes, one
\* company over two years, a missing code, name, industry, score and year, and
\* scores that are not whole numbers.
Pool ==
  << RawRow(PyInt(12), PyStr(<<"A", "b">>), PyInt(2020), I1, PyFloat(3)),
     RawRow(PyInt(12), PyStr(<<"A", "b">>), PyInt(2021), I1, PyFloat(4)),
     RawRow(PyStr(<<"1", "a">>), PyStr(<<"a", "C">>), PyInt(2020), I2, PyFloat(2)),
     RawRow(NaN, PyStr(<<"B", "c">>), PyInt(2020), I2, PyFloat(4)),
     RawRow(PyInt(600519), NaN, PyInt(2020), I1, PyFloat(1)),
     RawRow(PyInt(3), PyStr(<<"C", "a">>), PyInt(2021), NaN, PyFloat(0)),
     RawRow(PyStr(<<"b", "2">>), PyStr(<<"c", "B">>), PyInt(2020), I1, NaN),
     RawRow(PyInt(5), PyStr(<<"B", "b">>), NaN, I2, PyFloat(2)),
     RawRow(PyInt(21), PyStr(<<"a", "B">>), PyInt(2020), I3, PyFloat(5)) >>

RECURSIVE Pick(_, _, _)
\* The rows of sq at the positions in S, in file order, from position i on.
Pick(sq, S, i) ==
  IF i > Len(sq) THEN <<>>
  ELSE (IF i \in S THEN <<sq[i]>> ELSE <<>>) \o Pick(sq, S, i + 1)

SmallTables ==
  {Pick(Pool, S, 1) : S \in {T \in SUBSET (1 .. Len(Pool)) : Cardinality(T) <= MaxRows}}

\* One large file: BigRows companies of one year spread over BigIndustries
\* industries, enough to make head(20) and head(10) cut.
BigTable ==
  [i \in 1 .. BigRows |->
     RawRow(PyInt(i), PyStr(<<"c">> \o NatStr(i)), PyInt(2020),
            PyStr(<<"J">> \o NatStr(i % BigIndustries)), PyFloat(i % 3))]

Files ==
  {[status |-> "ok", rows |-> t] : t \in SmallTables \cup {BigTable}}
    \cup {[status |-> st, rows |-> <<>>] : st \in {"missing", "nocolumn"}}

(***************************************************************************)
(* load_data, lines 24-42.                                                 *)
(***************************************************************************)
\* A row of the DataFrame: idx is its index label, the row's position in the file.
Indexed(rows) ==
  [i \in 1 .. Len(rows) |->
     [idx |-> i, stock_code |-> rows[i].stock_code,
      company_name |-> rows[i].company_name, year |-> rows[i].year,
      industry_name |-> rows[i].industry_name, index_score |-> rows[i].index_score]]

\* Lines 31-33 on the column.
NormalizeCodes(rows) ==
  [i \in 1 .. Len(rows) |-> [rows[i] EXCEPT !.stock_code = NormalizeCode(@)]]

Complete(r) == ~isna(r.stock_code) /\ ~isna(r.company_name) /\ ~isna(r.index_score)

\* Line 34: dropna(subset=[stock code, company name, index score]).
DropNa(rows) == SelectSeq(rows, Complete)

\* Line 37: astype(int) raises on a missing year.
YearsCastable(rows) == \A i \in 1 .. Len(rows) : ~isna(rows[i].year)

\* Line 37: the year column as integers.
CastYears(rows) == [i \in 1 .. Len(rows) |-> [rows[i] EXCEPT !.year = @.n]]

Error(text, detail) == [el |-> "error", text |-> text, detail |-> detail]
Element(name) == [el |-> name, text |-> "", detail |-> ""]

None == [ok |-> FALSE, rows |-> <<>>]

\* The body of load_data: the value returned and the elements it writes
\* (st.error of line 41, with the exception's text).
load_data(f) ==
  LET cleaned == DropNa(NormalizeCodes(Indexed(f.rows)))
      Failed(e) == [value |-> None, elements |-> <<Error("load_failed", e)>>]
  IN  CASE f.status = "missing" -> Failed("FileNotFoundError")
        [] f.status = "nocolumn" -> Failed("KeyError")
        [] ~YearsCastable(cleaned) -> Failed("ValueError")
        [] OTHER -> [value |-> [ok |-> TRUE, rows |-> CastYears(cleaned)], elements |-> <<>>]

(***************************************************************************)
(* Helpers over sequences and sets of integers.                            *)
(***************************************************************************)
Range(sq) == {sq[i] : i \in 1 .. Len(sq)}
SetMax(S) == CHOOSE m \in S : \A k \in S : k <= m
SetMin(S) == CHOOSE m \in S : \A k \in S : m <= k
Head_(sq, k) == SubSeq(sq, 1, IF Len(sq) < k THEN Len(sq) ELSE k)

RECURSIVE InsertIdx(_, _, _)
\* Position i put into the sorted positions, before the first one it goes before.
InsertIdx(i, order, before) ==
  IF order = <<>> THEN <<i>>
  ELSE IF before[i, Head(order)] THEN <<i>> \o order
       ELSE <<Head(order)>> \o InsertIdx(i, Tail(order), before)

RECURSIVE SortIdx(_, _)
SortIdx(n, before) ==
  IF n = 0 THEN <<>> ELSE InsertIdx(n, SortIdx(n - 1, before), before)

\* sort_values: before[i, j] says sq[i] goes strictly before sq[j]; elements that
\* tie keep their order.
StableSort(sq, before) ==
  LET order == SortIdx(Len(sq), before) IN [k \in 1 .. Len(sq) |-> sq[order[k]]]

(***************************************************************************)
(* Series.str.contains(pat, case=False), lines 92-93 and 225-226: a        *)
(* regular-expression search (regex=True is the default), ignoring case.   *)
(* Of the regular-expression syntax the model has the literal characters   *)
(* and ".", which matches any character.                                   *)
(***************************************************************************)
Lower(c) ==
  CASE c = "A" -> "a" [] c = "B" -> "b" [] c = "C" -> "c" [] OTHER -> c

\* pat matches st at offset k (0-based).
MatchesAt(pat, st, k) ==
  \A j \in 1 .. Len(pat) : pat[j] = "." \/ Lower(pat[j]) = Lower(st[k + j])

\* pat occurs in st literally, ignoring case: what a plain substring test gives.
ContainsLiteral(pat, st) ==
  \E k \in 0 .. (Len(st) - Len(pat)) :
    \A j \in 1 .. Len(pat) : Lower(pat[j]) = Lower(st[k + j])

\* re.search(pat, st, re.IGNORECASE) finds a match.
contains(pat, st) == \E k \in 0 .. (Len(st) - Len(pat)) : MatchesAt(pat, st, k)

\* The row mask of lines 92-93 and 225-226.
SearchHit(r, company_search) ==
  contains(company_search, r.company_name.s) \/ contains(company_search, r.stock_code.s)

(***************************************************************************)
(* The sidebar, lines 52-76.                                               *)
(***************************************************************************)
All == PyStr(<<"quan2", "bu4">>)
UnknownIndustry == PyStr(<<"wei4", "zhi1", "hang2", "ye4">>)

\* Line 56: the distinct years.
Years(rows) == {rows[i].year : i \in 1 .. Len(rows)}

\* Line 61: df[industry] = df[industry].fillna(sentinel), written into df.
FillIndustry(rows) ==
  [i \in 1 .. Len(rows) |->
     [rows[i] EXCEPT !.industry_name = IF isna(@) THEN UnknownIndustry ELSE @]]

\* Line 62: the distinct industries.
Industries(rows) == {rows[i].industry_name : i \in 1 .. Len(rows)}

\* int(x) of a float counted in halves: truncation toward zero.
int(h) == IF h >= 0 THEN h \div 2 ELSE -((-h) \div 2)

Scores(rows) == {rows[i].index_score.n : i \in 1 .. Len(rows)}

\* Lines 66-67: the slider's bounds.
SliderMin(rows) == int(SetMin(Scores(rows)))
SliderMax(rows) == int(SetMax(Scores(rows)))

\* Lines 68-73: the ranges the slider can return.
SliderValues(rows) ==
  {<<lo, hi>> \in (SliderMin(rows) .. SliderMax(rows)) \X (SliderMin(rows) .. SliderMax(rows)) :
     lo <= hi}

(***************************************************************************)
(* The filter, lines 78-94.                                                *)
(***************************************************************************)
InRange(r, index_range) ==
  /\ ~isna(r.index_score)
  /\ r.index_score.n >= 2 * index_range[1]
  /\ r.index_score.n <= 2 * index_range[2]

Filter(rows, selected_year, selected_industry, index_range, company_search) ==
  LET Keep(r) ==
        /\ r.year = selected_year
        /\ selected_industry # All => r.industry_name = selected_industry
        /\ InRange(r, index_range)
        /\ company_search # <<>> => SearchHit(r, company_search)
  IN  SelectSeq(rows, Keep)

(***************************************************************************)
(* The metric cards, lines 100-148.                                        *)
(***************************************************************************)
Present(rows) == SelectSeq(rows, LAMBDA r : ~isna(r.index_score))

RECURSIVE SumScores(_)
SumScores(rows) ==
  IF rows = <<>> THEN 0 ELSE Head(rows).index_score.n + SumScores(Tail(rows))

\* Series.mean(): the mean of the values present, sum / cnt in halves, and
\* missing when there are none.
mean(rows) ==
  LET present == Present(rows)
  IN  [na |-> present = <<>>, sum |-> SumScores(present), cnt |-> Len(present)]

\* Series.max() and Series.min(): missing when no value is present.
max(rows) == IF Present(rows) = <<>> THEN NaN ELSE PyFloat(SetMax(Scores(Present(rows))))
min(rows) == IF Present(rows) = <<>> THEN NaN ELSE PyFloat(SetMin(Scores(Present(rows))))

\* f"{avg:.1f}" of sum / cnt halves, in tenths, rounding half to even.
Format1f(sum, cnt) ==
  LET q == (5 * sum) \div cnt
      r == (5 * sum) % cnt
  IN  IF 2 * r < cnt \/ (2 * r = cnt /\ q % 2 = 0) THEN q ELSE q + 1

Card(kind, v) == [kind |-> kind, v |-> v]

\* Lines 139-141.
Summary(filtered) == [avg |-> mean(filtered), max |-> max(filtered), min |-> min(filtered)]

\* Lines 143-148: the three cards of a non-empty result.
StatCards(sm) ==
  [mean |-> IF ~sm.avg.na THEN Card("fixed1", Format1f(sm.avg.sum, sm.avg.cnt))
            ELSE Card("N/A", 0),
   max |-> IF ~isna(sm.max) THEN Card("int", int(sm.max.n)) ELSE Card("int", 0),
   min |-> IF ~isna(sm.min) THEN Card("int", int(sm.min.n)) ELSE Card("int", 0)]

\* Lines 109-114: st.empty() in the three columns.
EmptyCards == [mean |-> Card("empty", 0), max |-> Card("empty", 0), min |-> Card("empty", 0)]

\* Lines 104-148, mutated: the statistics are computed and shown without the
\* test of line 107.
MetricsNoEmptyTest(filtered) ==
  [count |-> Len(filtered)] @@ StatCards(Summary(filtered))

\* Lines 104-148: the count card and the three others.
Metrics(filtered) ==
  [count |-> Len(filtered)]
    @@ (IF filtered = <<>> THEN EmptyCards ELSE StatCards(Summary(filtered)))

(***************************************************************************)
(* The ranking table, lines 189-201.                                       *)
(***************************************************************************)
TopRows == 20

ScoreBefore(a, b) ==
  ~isna(a.index_score) /\ (isna(b.index_score) \/ a.index_score.n > b.index_score.n)

\* Line 191.
RankedDf(filtered) ==
  StableSort(filtered,
             [i, j \in 1 .. Len(filtered) |-> ScoreBefore(filtered[i], filtered[j])])

Ranked(rows) ==
  [i \in 1 .. Len(rows) |->
     [rank |-> i, idx |-> rows[i].idx, stock_code |-> rows[i].stock_code,
      company_name |-> rows[i].company_name, industry_name |-> rows[i].industry_name,
      index_score |-> rows[i].index_score]]

\* Lines 191-199, mutated: the rows are ranked in the filter's order.
DisplayDfUnsorted(filtered) == Ranked(Head_(filtered, TopRows))

\* Lines 191-199: sorted, cut to 20 rows, ranks 1.. inserted.
DisplayDf(filtered) == Ranked(Head_(RankedDf(filtered), TopRows))

(***************************************************************************)
(* The industry comparison, lines 203-217.                                 *)
(***************************************************************************)
TopIndustries == 10

\* Code point order of the characters the model uses.
CharOrder ==
  <<"+", "-", ".", "0", "1", "2", "3", "4", "5", "6", "7", "8", "9",
    "A", "B", "C", "I", "J", "a", "b", "c", "n", "wei4", "zhi1", "hang2", "ye4", "quan2", "bu4">>
CharCode(c) == CHOOSE i \in 1 .. Len(CharOrder) : CharOrder[i] = c

RECURSIVE StrLess(_, _)
StrLess(a, b) ==
  IF b = <<>> THEN FALSE
  ELSE IF a = <<>> THEN TRUE
  ELSE IF Head(a) = Head(b) THEN StrLess(Tail(a), Tail(b))
  ELSE CharCode(Head(a)) < CharCode(Head(b))

RECURSIVE SetToSeq(_)
SetToSeq(S) == IF S = {} THEN <<>> ELSE LET x == CHOOSE y \in S : TRUE IN <<x>> \o SetToSeq(S \ {x})

\* groupby(industry): the keys in ascending order.
GroupKeys(rows) ==
  LET keys == SetToSeq(Industries(rows))
  IN  StableSort(keys, [i, j \in 1 .. Len(keys) |-> StrLess(keys[i].s, keys[j].s)])

\* groupby(industry)[score].mean(): one entry per industry, in key order.
GroupMeans(rows) ==
  LET keys == GroupKeys(rows)
      Of(k) == mean(SelectSeq(rows, LAMBDA r : r.industry_name = k))
  IN  [i \in 1 .. Len(keys) |->
         LET m == Of(keys[i]) IN [industry_name |-> keys[i], sum |-> m.sum, cnt |-> m.cnt]]

\* a's mean is greater than b's.
MeanBefore(a, b) == a.sum * b.cnt > b.sum * a.cnt

InYear(rows, selected_year) == SelectSeq(rows, LAMBDA r : r.year = selected_year)

\* Line 206: sort_values(ascending=False) of the group means.
SortMeans(g) == StableSort(g, [i, j \in 1 .. Len(g) |-> MeanBefore(g[i], g[j])])

\* Lines 205-209, mutated: the comparison is drawn from the filtered rows.
IndustryAvgFiltered(rows, filtered, selected_year) ==
  Head_(SortMeans(GroupMeans(filtered)), TopIndustries)

\* Lines 205-209: the bar chart's data, from every row of the selected year.
IndustryAvg(rows, filtered, selected_year) ==
  Head_(SortMeans(GroupMeans(InYear(rows, selected_year))), TopIndustries)

(***************************************************************************)
(* The company trend, lines 219-240.                                       *)
(***************************************************************************)
\* Lines 224-227: every row of df the search finds, by year.
TrendDf(rows, company_search) ==
  LET hits == SelectSeq(rows, LAMBDA r : SearchHit(r, company_search))
  IN  StableSort(hits, [i, j \in 1 .. Len(hits) |-> hits[i].year < hits[j].year])

(***************************************************************************)
(* The state.  Streamlit runs the script from line 1 to the end when a     *)
(* session opens and again on every widget change; one action is one run.  *)
(***************************************************************************)
VARIABLES
  file,               \* the spreadsheet at file_path
  cache,              \* st.cache_data's entry for load_data
  df,                 \* the script's df once the run is over
  selected_year, selected_industry, index_range, company_search,   \* the widgets
  filtered_df,        \* lines 79-94
  avg_index, max_index, min_index,    \* lines 66-67 and 139-141
  cards,              \* the four metric cards
  display_df,         \* the ranking table
  industry_avg,       \* the bar chart's data
  trend_df,           \* the line chart's data
  screen,             \* the elements the run has written, in order
  pc,                 \* "closed", or how the last run ended
  raw, once, twice    \* a stock code, normalized, and normalized again

vars ==
  <<file, cache, df, selected_year, selected_industry, index_range, company_search,
    filtered_df, avg_index, max_index, min_index, cards, display_df, industry_avg,
    trend_df, screen, pc, raw, once, twice>>

widgets == <<selected_year, selected_industry, index_range, company_search>>
outputs == <<filtered_df, avg_index, max_index, min_index, cards, display_df, industry_avg, trend_df>>
codes == <<raw, once, twice>>

Unset == [t |-> "unset", n |-> 0, s |-> <<>>]
Unbound == [def |-> FALSE, na |-> TRUE, sum |-> 0, cnt |-> 0]
NoCards == [count |-> 0] @@ EmptyCards

\* The search texts a user types.
Searches == {<<"a">>, <<"A", "B">>, <<".">>, <<"b", ".">>, <<"1">>}

\* Lines 49-76: the title and the sidebar.
Sidebar ==
  <<Element("title"), Element("sidebar_header"), Element("year_select"),
    Element("industry_select"), Element("index_slider"), Element("search_input")>>

\* Lines 100-240: the main area.
MainArea(filtered, search, trend) ==
  <<Element("metric_count")>>
    \o (IF filtered = <<>> THEN <<Element("no_data_guidance"), Element("no_histogram_info")>>
        ELSE <<Element("metric_mean"), Element("metric_max"), Element("metric_min"),
               Element("histogram"), Element("radar_chart")>>)
    \o <<Element("ranking_table"), Element("industry_bar_chart")>>
    \o (IF search = <<>> THEN <<>>
        ELSE IF trend # <<>> THEN <<Element("trend_chart")>>
        ELSE <<Element("no_company_info")>>)

NoOutputs ==
  /\ filtered_df' = <<>>
  /\ avg_index' = Unbound
  /\ max_index' = Unset
  /\ min_index' = Unset
  /\ cards' = NoCards
  /\ display_df' = <<>>
  /\ industry_avg' = <<>>
  /\ trend_df' = <<>>

\* Lines 241-243, mutated: the title of line 49 is written before df is tested.
StopAfterTitle(loaded) ==
  /\ df' = None
  /\ screen' = loaded.elements \o <<Element("title"), Error("check_file", "")>>
  /\ pc' = "stopped"
  /\ UNCHANGED widgets
  /\ NoOutputs

\* Lines 241-243: load_data returned None.
Stop(loaded) ==
  /\ df' = None
  /\ screen' = loaded.elements \o <<Error("check_file", "")>>
  /\ pc' = "stopped"
  /\ UNCHANGED widgets
  /\ NoOutputs

\* Lines 47-66 on a table without rows: the selectors have no options and
\* int() of the missing minimum raises.
Crash(loaded) ==
  /\ df' = loaded.value
  /\ screen' = loaded.elements \o SubSeq(Sidebar, 1, 4) \o <<Element("exception")>>
  /\ pc' = "crashed"
  /\ UNCHANGED widgets
  /\ NoOutputs

\* Lines 47-240 with the widgets returning year, industry, range and search.
Render(loaded, year, industry, range, search) ==
  LET rows == FillIndustry(loaded.value.rows)
      filtered == Filter(rows, year, industry, range, search)
      trend == IF search = <<>> THEN <<>> ELSE TrendDf(rows, search)
  IN  /\ df' = [ok |-> TRUE, rows |-> rows]
      /\ selected_year' = year
      /\ selected_industry' = industry
      /\ index_range' = range
      /\ company_search' = search
      /\ filtered_df' = filtered
      /\ avg_index' = IF filtered = <<>> THEN Unbound ELSE [def |-> TRUE] @@ Summary(filtered).avg
      /\ max_index' = IF filtered = <<>> THEN PyInt(SliderMax(rows)) ELSE Summary(filtered).max
      /\ min_index' = IF filtered = <<>> THEN PyInt(SliderMin(rows)) ELSE Summary(filtered).min
      /\ cards' = Metrics(filtered)
      /\ display_df' = DisplayDf(filtered)
      /\ industry_avg' = IndustryAvg(rows, filtered, year)
      /\ trend_df' = trend
      /\ screen' = loaded.elements \o Sidebar \o MainArea(filtered, search, trend)
      /\ pc' = "rendered"

\* A run of a fresh session: every widget returns its default (the latest year,
\* all industries, the whole slider, no search text).
FirstRun(loaded) ==
  IF ~loaded.value.ok THEN Stop(loaded)
  ELSE IF loaded.value.rows = <<>> THEN Crash(loaded)
  ELSE LET rows == loaded.value.rows
       IN  Render(loaded, SetMax(Years(rows)), All, <<SliderMin(rows), SliderMax(rows)>>, <<>>)

Init ==
  /\ file \in Files
  /\ cache = [filled |-> FALSE, value |-> None, elements |-> <<>>]
  /\ df = None
  /\ selected_year = 0
  /\ selected_industry = All
  /\ index_range = <<0, 0>>
  /\ company_search = <<>>
  /\ filtered_df = <<>>
  /\ avg_index = Unbound
  /\ max_index = Unset
  /\ min_index = Unset
  /\ cards = NoCards
  /\ display_df = <<>>
  /\ industry_avg = <<>>
  /\ trend_df = <<>>
  /\ screen = <<>>
  /\ pc = "closed"
  /\ raw = Unset
  /\ once = Unset
  /\ twice = Unset

\* The first session: load_data runs (lines 24-42) and its result is cached.
Open ==
  /\ pc = "closed"
  /\ cache' = [filled |-> TRUE] @@ load_data(file)
  /\ FirstRun(load_data(file))
  /\ UNCHANGED <<file, codes>>

\* A page reload: load_data is answered from the cache, its elements replayed.
Reload ==
  /\ pc # "closed"
  /\ FirstRun([value |-> cache.value, elements |-> cache.elements])
  /\ UNCHANGED <<file, cache, codes>>

\* A widget change: the script runs again with the other widgets as they were.
Rerun(year, industry, range, search) ==
  /\ Render([value |-> cache.value, elements |-> cache.elements], year, industry, range, search)
  /\ UNCHANGED <<file, cache, codes>>

SelectYear ==
  /\ pc = "rendered"
  /\ \E y \in Years(cache.value.rows) \ {selected_year} :
       Rerun(y, selected_industry, index_range, company_search)

SelectIndustry ==
  /\ pc = "rendered"
  /\ \E i \in ({All} \cup Industries(FillIndustry(cache.value.rows))) \ {selected_industry} :
       Rerun(selected_year, i, index_range, company_search)

MoveSlider ==
  /\ pc = "rendered"
  /\ \E r \in SliderValues(cache.value.rows) \ {index_range} :
       Rerun(selected_year, selected_industry, r, company_search)

TypeSearch ==
  /\ pc = "rendered"
  /\ \E q \in (Searches \cup {<<>>}) \ {company_search} :
       Rerun(selected_year, selected_industry, index_range, q)

Next == Open \/ Reload \/ SelectYear \/ SelectIndustry \/ MoveSlider \/ TypeSearch

Spec == Init /\ [][Next]_vars

(***************************************************************************)
(* The stock code normalization alone (lines 31-33), on one value at a     *)
(* time: every string of up to MaxCodeLen characters, the integers around  *)
(* zero and around six digits, floats, and the missing value.              *)
(***************************************************************************)
CodeChars == {"0", "1", "-", "a"}

RECURSIVE StringsUpTo(_)
StringsUpTo(k) ==
  IF k = 0 THEN {<<>>}
  ELSE LET shorter == StringsUpTo(k - 1)
       IN  shorter \cup {Append(st, c) : st \in {x \in shorter : Len(x) = k - 1}, c \in CodeChars}

RawCodes ==
  {PyStr(st) : st \in StringsUpTo(MaxCodeLen) \cup {Unknown, <<"+", "1">>, <<"1", "2", "3">>}}
    \cup {PyInt(k) : k \in (-MaxSmallInt .. MaxSmallInt) \cup {123, 99999, 100000, 600519, 1234567}}
    \cup {PyFloat(k) : k \in {0, 24, 25, 1201038}}
    \cup {NaN}

InitCodes ==
  /\ file = [status |-> "ok", rows |-> <<>>]
  /\ cache = [filled |-> FALSE, value |-> None, elements |-> <<>>]
  /\ df = None
  /\ selected_year = 0
  /\ selected_industry = All
  /\ index_range = <<0, 0>>
  /\ company_search = <<>>
  /\ filtered_df = <<>>
  /\ avg_index = Unbound
  /\ max_index = Unset
  /\ min_index = Unset
  /\ cards = NoCards
  /\ display_df = <<>>
  /\ industry_avg = <<>>
  /\ trend_df = <<>>
  /\ screen = <<>>
  /\ pc = "closed"
  /\ raw \in RawCodes
  /\ once = Unset
  /\ twice = Unset

\* Lines 31-33 applied to the raw value.
Normalize ==
  /\ once = Unset
  /\ once' = NormalizeCode(raw)
  /\ UNCHANGED <<file, cache, df, widgets, outputs, screen, pc, raw, twice>>

\* Lines 31-33 applied to their own result.
NormalizeAgain ==
  /\ once # Unset
  /\ twice = Unset
  /\ twice' = NormalizeCode(once)
  /\ UNCHANGED <<file, cache, df, widgets, outputs, screen, pc, raw, once>>

NextCodes == Normalize \/ NormalizeAgain

SpecCodes == InitCodes /\ [][NextCodes]_vars

(***************************************************************************)
(* Properties.                                                             *)
(***************************************************************************)
Rendered == pc = "rendered"

\* The row test of the filter as the specification words it: the search text is
\* a plain substring, ignoring case, of the company name or of the stock code.
PassesAll(r) ==
  /\ r.year = selected_year
  /\ (selected_industry = All \/ r.industry_name = selected_industry)
  /\ 2 * index_range[1] <= r.index_score.n
  /\ r.index_score.n <= 2 * index_range[2]
  /\ \/ company_search = <<>>
     \/ ContainsLiteral(company_search, r.company_name.s)
     \/ ContainsLiteral(company_search, r.stock_code.s)

\* C1: the filtered result is exactly the set of rows of the table that have the
\* selected year, the selected industry (or any, under "all"), an index score in
\* the selected range, and the search text as a case-insensitive substring of the
\* company name or the stock code.
C1_FilterIsExact ==
  Rendered => Range(filtered_df) = {r \in Range(df.rows) : PassesAll(r)}

\* C2: with all industries, no search text and the slider at its full bounds,
\* the filtered result is exactly the rows of the selected year.
C2_FullRangeKeepsYear ==
  (/\ Rendered
   /\ selected_industry = All
   /\ company_search = <<>>
   /\ index_range = <<SliderMin(df.rows), SliderMax(df.rows)>>)
    => Range(filtered_df) = {r \in Range(df.rows) : r.year = selected_year}

\* C3: every record of the loaded table comes from a source record that has a
\* stock code, a company name and an index score.
C3_LoadedRowsComplete ==
  (cache.filled /\ cache.value.ok) =>
    \A r \in Range(cache.value.rows) :
      /\ ~isna(file.rows[r.idx].stock_code)
      /\ ~isna(file.rows[r.idx].company_name)
      /\ ~isna(file.rows[r.idx].index_score)

LiteralHit(r) ==
  \/ ContainsLiteral(company_search, r.company_name.s)
  \/ ContainsLiteral(company_search, r.stock_code.s)

YearAscending(rows) == \A i \in 1 .. Len(rows) - 1 : rows[i].year <= rows[i + 1].year

\* C4: for a search text, the trend is empty when no row of the table matches;
\* otherwise it is, in ascending order of year, the rows of every year of one
\* company, a company that matches the text, and of no other company.
C4_TrendOfOneCompany ==
  (Rendered /\ company_search # <<>>) =>
    IF \A r \in Range(df.rows) : ~LiteralHit(r) THEN trend_df = <<>>
    ELSE /\ trend_df # <<>>
         /\ YearAscending(trend_df)
         /\ LiteralHit(trend_df[1])
         /\ Range(trend_df) =
              {r \in Range(df.rows) : r.company_name = trend_df[1].company_name}

C6_RankedTable ==
  Rendered =>
    /\ Len(display_df) <= TopRows
    /\ Len(display_df) = (IF Len(filtered_df) < TopRows THEN Len(filtered_df) ELSE TopRows)
    /\ \A i \in 1 .. Len(display_df) : display_df[i].rank = i
    /\ \A i \in 1 .. Len(display_df) - 1 :
         display_df[i].index_score.n >= display_df[i + 1].index_score.n
    /\ \A i \in 1 .. Len(display_df) :
         \E r \in Range(filtered_df) :
           r.idx = display_df[i].idx /\ r.index_score = display_df[i].index_score
    /\ \A i, j \in 1 .. Len(display_df) : display_df[i].idx = display_df[j].idx => i = j
    /\ \A r \in Range(filtered_df) :
         (\A i \in 1 .. Len(display_df) : display_df[i].idx # r.idx) =>
           \A i \in 1 .. Len(display_df) : r.index_score.n <= display_df[i].index_score.n

C6_Witness ==
  /\ Rendered
  /\ Len(filtered_df) > TopRows
  /\ Len(display_df) = TopRows
  /\ display_df[1].index_score.n > display_df[TopRows].index_score.n
  /\ filtered_df[1].index_score.n < display_df[1].index_score.n

IndustriesOfYear == {r.industry_name : r \in {x \in Range(df.rows) : x.year = selected_year}}

\* C7: a run that leaves the selected year as it was leaves the industry
\* comparison as it was, whatever else was selected; and the comparison lists
\* industries of the selected year's rows, each once with the mean of all its
\* rows of that year, means not increasing, at most 10 of them.
C7_IndustryIndependent ==
  /\ [][(Rendered /\ pc' = "rendered" /\ selected_year' = selected_year)
          => industry_avg' = industry_avg]_vars
  /\ [](Rendered =>
          /\ Len(industry_avg) =
               (IF Cardinality(IndustriesOfYear) < TopIndustries
                THEN Cardinality(IndustriesOfYear) ELSE TopIndustries)
          /\ \A i \in 1 .. Len(industry_avg) - 1 :
               industry_avg[i].sum * industry_avg[i + 1].cnt
                 >= industry_avg[i + 1].sum * industry_avg[i].cnt
          /\ \A i, j \in 1 .. Len(industry_avg) :
               industry_avg[i].industry_name = industry_avg[j].industry_name => i = j
          /\ \A i \in 1 .. Len(industry_avg) :
               LET of == SelectSeq(df.rows, LAMBDA r : r.year = selected_year
                                     /\ r.industry_name = industry_avg[i].industry_name)
               IN  /\ industry_avg[i].cnt = Len(of)
                   /\ industry_avg[i].sum = SumScores(of)
                   /\ Len(of) > 0)

C7_Witness ==
  /\ Rendered
  /\ selected_industry # All
  /\ company_search # <<>>
  /\ Len(filtered_df) = 1
  /\ Cardinality(IndustriesOfYear) > TopIndustries
  /\ Len(industry_avg) = TopIndustries
  /\ industry_avg[1].sum * industry_avg[TopIndustries].cnt
       > industry_avg[TopIndustries].sum * industry_avg[1].cnt

\* C8: when a run is over, the table is what load_data produced.
C8_TableUnchanged == Rendered => df = cache.value

LeftPadded(st) == Zeros(PadWidth - Len(st)) \o st

\* C9 as stated: a string or integer other than the sentinel and shorter than 6
\* characters is left-padded with zeros to 6; a value 6 characters long is
\* unchanged; normalizing twice is normalizing once; the result is a string.
C9_Normalization ==
  (once # Unset) =>
    /\ (raw.t \in {"str", "int"} /\ str(raw) # Unknown /\ Len(str(raw)) < PadWidth)
         => once = PyStr(LeftPadded(str(raw)))
    /\ Len(str(raw)) = PadWidth => once = PyStr(str(raw))
    /\ twice # Unset => twice = once
    /\ once.t = "str"

\* C9, amended: such a value is brought to 6 characters by zeros put in front of
\* it, behind its sign if it starts with one; a value 6 characters long is
\* unchanged; normalizing a string or integer twice is normalizing it once; the
\* result is a string.
C9_NormalizationSigned ==
  (once # Unset) =>
    /\ (raw.t \in {"str", "int"} /\ str(raw) # Unknown /\ Len(str(raw)) < PadWidth)
         => /\ Len(once.s) = PadWidth
            /\ once.s = (IF str(raw) # <<>> /\ Head(str(raw)) \in {"+", "-"}
                         THEN <<Head(str(raw))>> \o Zeros(PadWidth - Len(str(raw)))
                                \o Tail(str(raw))
                         ELSE LeftPadded(str(raw)))
    /\ Len(str(raw)) = PadWidth => once = PyStr(str(raw))
    /\ (twice # Unset /\ raw.t \in {"str", "int"}) => twice = once
    /\ once.t = "str"

C9_Witness ==
  /\ raw = PyInt(123)
  /\ once = PyStr(<<"0", "0", "0", "1", "2", "3">>)
  /\ twice = once

Shown(card) == card.kind \in {"fixed1", "int"}

====
